---- MODULE Spec2Model ----
(***************************************************************************)
(* Model of SpeculativeDecodingEngine (src/src/engine/                     *)
(* speculative-decoding.ts): the model-pair loader, the draft / verify /   *)
(* bonus round loop of generate(), abort(), resetChat() and unload().      *)
(*                                                                         *)
(* Every `await` of the source is a suspension point: an action of the     *)
(* model is the completion of the awaited backend call followed by all the *)
(* synchronous code up to the next `await` (or up to the return / throw).  *)
(* abort() is synchronous and may run at any suspension point.             *)
(***************************************************************************)
EXTENDS Integers, Sequences, FiniteSets, TLC

\* ---------------------------------------------------------------- bounds
MaxDraftLength == 2     \* largest cfg.draftLength a caller passes
MaxMaxTokens == 2       \* largest cfg.maxTokens a caller passes
MaxRounds == 2          \* rounds explored per generate() call
MaxTextLen == 2         \* longest accumulated text the backend returns

\* ------------------------------------------------------------- constants
NULL == "null"
NoToken == -1

\* EOS_TOKEN_IDS
EOS_TOKEN_IDS == {0, 1, 2, 128001, 128009}

\* token ids the backend samples from: one end-of-sequence id, two others
Tokens == {2, 5, 7}

\* one-letter alphabet of decoded text
Chars == {"a"}
Texts == UNION {[1..n -> Chars] : n \in 0..MaxTextLen}

\* MODEL_PAIRS
MODEL_PAIRS ==
  { [draftId |-> "Llama-3.2-1B", targetId |-> "Llama-3.2-3B"],
    [draftId |-> "Llama-3.2-1B", targetId |-> "Llama-3.1-8B"],
    [draftId |-> "Llama-3.2-3B", targetId |-> "Llama-3.1-8B"] }

\* progress values (percent) the backend's InitProgressReport carries
ProgressReports == {0, 50, 100}

\* configurations a caller passes to generate()
Configs == [draftLength : 1..MaxDraftLength, maxTokens : 0..MaxMaxTokens]

InferenceStatus == {"idle", "loading-model", "ready", "generating", "error"}

\* ----------------------------------------------------------------- state
VARIABLES
  engine,         \* this.engine: NULL or "MLCEngine"
  draftModelId,   \* this.draftModelId
  targetModelId,  \* this.targetModelId
  status,         \* this.status
  aborted,        \* this.aborted
  emitted,        \* the last info passed to onProgress
  gen,            \* the generate() call: position and locals
  load,           \* the loadModels() call: position, argument, currentModelIndex
  auxPc,          \* position of a resetChat() / unload() call
  lastCall,       \* the last backend call issued by the current API call
  ret             \* outcome of the current / last API call

vars == <<engine, draftModelId, targetModelId, status, aborted, emitted,
          gen, load, auxPc, lastCall, ret>>

\* ------------------------------------------------------------ statistics
\* a quotient of two counters, kept as the fraction num / den
Frac(n, d) == [num |-> n, den |-> d]

Zero == Frac(0, 1)

One == Frac(1, 1)

FracEq(a, b) == a.num * b.den = b.num * a.den

FracGeq(a, b) == a.num * b.den >= b.num * a.den

\* elapsedMs and tokensPerSecond (wall-clock values) are left out
emptyStats ==
  [totalTokens |-> 0, acceptedTokens |-> 0, rejectedTokens |-> 0, draftRounds |-> 0,
   avgAcceptanceLength |-> Zero, estimatedSpeedup |-> One]

\* stats.draftRounds > 0 ? stats.acceptedTokens / stats.draftRounds : 0
AvgAcceptanceLength(st) ==
  IF st.draftRounds > 0 THEN Frac(st.acceptedTokens, st.draftRounds) ELSE Zero

\* an estimate without the lower bound
EstimatedSpeedupUnbounded(avg) == avg

\* Math.max(1, stats.avgAcceptanceLength)
EstimatedSpeedup(avg) == IF FracGeq(One, avg) THEN One ELSE avg

\* the recomputation of the derived statistics
UpdateStats(st) ==
  [st EXCEPT !.avgAcceptanceLength = AvgAcceptanceLength(st),
             !.estimatedSpeedup = EstimatedSpeedup(AvgAcceptanceLength(st))]

Info(s, p, st) == [status |-> s, loadProgress |-> p, stats |-> st]

NoInfo == Info("none", 0, emptyStats)

\* ---------------------------------------------------------- backend calls
NoCall == [fn |-> "none", inputIds |-> <<>>, isPrefill |-> FALSE, models |-> <<>>]

BackendCall(fn, models) ==
  [fn |-> fn, inputIds |-> <<>>, isPrefill |-> FALSE, models |-> models]

SampleCall(inputIds, isPrefill, model) ==
  [fn |-> "forwardTokensAndSample", inputIds |-> inputIds,
   isPrefill |-> isPrefill, models |-> <<model>>]


\* ------------------------------------------------------------- helpers
IsEos(token) == token \in EOS_TOKEN_IDS

\* currentMessage.slice(n)
Slice(text, n) == SubSeq(text, n + 1, Len(text))

Last(s) == s[Len(s)]

\* the null pair
NoPair == [draftId |-> NULL, targetId |-> NULL]

getLoadedPair ==
  IF draftModelId = NULL \/ targetModelId = NULL
  THEN NoPair
  ELSE [draftId |-> draftModelId, targetId |-> targetModelId]

\* the invocations of the onToken callback during a generate() call: their
\* number and the arguments of the last one
NoTokens == [count |-> 0, newText |-> <<>>, fullText |-> <<>>]

\* the call the caller made last: its arguments, and its outcome and value
\* once it has returned or thrown
Ret(op, outcome) ==
  [op |-> op, outcome |-> outcome, pair |-> NoPair,
   config |-> [draftLength |-> 1, maxTokens |-> 0],
   text |-> <<>>, stats |-> emptyStats, onToken |-> NoTokens]

NoRet == Ret("none", "none")

isReady == status = "ready" /\ engine # NULL

\* no API call of the engine is in flight
Serialized == gen.pc = "idle" /\ load.pc = "idle" /\ auxPc = "idle"

\* ------------------------------------------------------------------ Init
NoRound ==
  [draftTokens |-> <<>>, draftHitEos |-> FALSE, acceptedTokens |-> <<>>,
   verified |-> <<>>, bonusToken |-> NoToken, base |-> emptyStats]

GenIdle ==
  [pc |-> "idle", cfg |-> [draftLength |-> 1, maxTokens |-> 0],
   stats |-> emptyStats, fullText |-> <<>>, totalGenerated |-> 0,
   afterGenerate |-> FALSE, afterAbort |-> FALSE, onToken |-> NoTokens,
   round |-> NoRound]

LoadIdle ==
  [pc |-> "idle", pair |-> NoPair,
   currentModelIndex |-> 0]

Init ==
  /\ engine = NULL
  /\ draftModelId = NULL
  /\ targetModelId = NULL
  /\ status = "idle"
  /\ aborted = FALSE
  /\ emitted = NoInfo
  /\ gen = GenIdle
  /\ load = LoadIdle
  /\ auxPc = "idle"
  /\ lastCall = NoCall
  /\ ret = NoRet

\* ------------------------------------------------------------ loadModels
\* what loadModels leaves alone
LoadFrame == UNCHANGED <<aborted, gen, auxPc>>

\* a catch block that also rolls the resident identifiers back
LoadCatchRollsBack ==
  /\ status' = "error"
  /\ emitted' = Info("error", 0, emptyStats)
  /\ load' = LoadIdle
  /\ ret' = [Ret("loadModels", "BackendFailure") EXCEPT !.pair = load.pair]
  /\ draftModelId' = NULL
  /\ targetModelId' = NULL
  /\ UNCHANGED <<engine, lastCall>>
  /\ LoadFrame

\* catch (err) { this.emit('error'); throw err; }
LoadCatch ==
  /\ status' = "error"
  /\ emitted' = Info("error", 0, emptyStats)
  /\ load' = LoadIdle
  /\ ret' = [Ret("loadModels", "BackendFailure") EXCEPT !.pair = load.pair]
  /\ UNCHANGED <<engine, draftModelId, targetModelId, lastCall>>
  /\ LoadFrame

\* a loadModels whose already-loaded test looks at the draft identifier only
LoadModelsComparesDraftOnly(pair) ==
  /\ load.pc = "idle"
  /\ IF draftModelId = pair.draftId /\ engine # NULL
     THEN /\ load' = load
          /\ lastCall' = NoCall
          /\ ret' = [Ret("loadModels", "ok") EXCEPT !.pair = pair]
          /\ UNCHANGED <<engine, draftModelId, targetModelId, status, emitted>>
     ELSE /\ status' = "loading-model"
          /\ emitted' = Info("loading-model", 0, emptyStats)
          /\ engine' = "MLCEngine"
          /\ load' = [pc |-> "reload_draft", pair |-> pair, currentModelIndex |-> 0]
          /\ lastCall' = BackendCall("reload", <<pair.draftId>>)
          /\ ret' = [Ret("loadModels", "pending") EXCEPT !.pair = pair]
          /\ UNCHANGED <<draftModelId, targetModelId>>
  /\ LoadFrame

\* loadModels(pair), up to the first await
LoadModels(pair) ==
  /\ load.pc = "idle"
  /\ IF draftModelId = pair.draftId /\ targetModelId = pair.targetId /\ engine # NULL
     THEN \* already loaded
          /\ load' = load
          /\ lastCall' = NoCall
          /\ ret' = [Ret("loadModels", "ok") EXCEPT !.pair = pair]
          /\ UNCHANGED <<engine, draftModelId, targetModelId, status, emitted>>
     ELSE /\ status' = "loading-model"
          /\ emitted' = Info("loading-model", 0, emptyStats)
          /\ engine' = "MLCEngine"
          /\ load' = [pc |-> "reload_draft", pair |-> pair, currentModelIndex |-> 0]
          /\ lastCall' = BackendCall("reload", <<pair.draftId>>)
          /\ ret' = [Ret("loadModels", "pending") EXCEPT !.pair = pair]
          /\ UNCHANGED <<draftModelId, targetModelId>>
  /\ LoadFrame

\* a mapping that adds the report to the base without halving it
ScaledProgressNotHalved(currentModelIndex, progress) ==
  (IF currentModelIndex = 0 THEN 0 ELSE 50) + progress

\* the init-progress callback: base + report.progress * 0.5, in percent
ScaledProgress(currentModelIndex, progress) ==
  (IF currentModelIndex = 0 THEN 0 ELSE 50) + progress \div 2

InitProgress(progress) ==
  /\ load.pc \in {"reload_draft", "reload_both"}
  /\ status' = "loading-model"
  /\ emitted' = Info("loading-model",
                     ScaledProgress(load.currentModelIndex, progress), emptyStats)
  /\ UNCHANGED <<engine, draftModelId, targetModelId, load, lastCall, ret>>
  /\ LoadFrame

\* await this.engine.reload(pair.draftId) completes
ReloadDraftDone ==
  /\ load.pc = "reload_draft"
  /\ IF engine = NULL
     THEN \* this.engine.reload on a null engine throws inside the try block
          LoadCatch
     ELSE /\ load' = [load EXCEPT !.pc = "reload_both", !.currentModelIndex = 1]
          /\ lastCall' = BackendCall("reload", <<load.pair.draftId, load.pair.targetId>>)
          /\ UNCHANGED <<engine, draftModelId, targetModelId, status, emitted, ret>>
          /\ LoadFrame

\* await this.engine.reload([pair.draftId, pair.targetId]) completes
ReloadBothDone ==
  /\ load.pc = "reload_both"
  /\ draftModelId' = load.pair.draftId
  /\ targetModelId' = load.pair.targetId
  /\ status' = "ready"
  /\ emitted' = Info("ready", 100, emptyStats)
  /\ load' = LoadIdle
  /\ ret' = [Ret("loadModels", "ok") EXCEPT !.pair = load.pair]
  /\ UNCHANGED <<engine, lastCall>>
  /\ LoadFrame

\* either reload rejects
ReloadFails ==
  /\ load.pc \in {"reload_draft", "reload_both"}
  /\ LoadCatch

\* ------------------------------------------------- resetChat and unload
AuxFrame == UNCHANGED <<aborted, gen, load, emitted>>

\* a resetChat that throws when no model pair is resident
ResetChatThrows ==
  /\ auxPc = "idle"
  /\ IF engine # NULL /\ draftModelId # NULL
     THEN /\ auxPc' = "reset_draft"
          /\ lastCall' = BackendCall("resetChat", <<draftModelId>>)
          /\ ret' = Ret("resetChat", "pending")
     ELSE /\ auxPc' = "idle"
          /\ lastCall' = NoCall
          /\ ret' = Ret("resetChat", "NotLoaded")
  /\ UNCHANGED <<engine, draftModelId, targetModelId, status>>
  /\ AuxFrame

\* resetChat(), up to the first await
ResetChat ==
  /\ auxPc = "idle"
  /\ IF engine # NULL /\ draftModelId # NULL
     THEN /\ auxPc' = "reset_draft"
          /\ lastCall' = BackendCall("resetChat", <<draftModelId>>)
          /\ ret' = Ret("resetChat", "pending")
     ELSE IF engine # NULL /\ targetModelId # NULL
          THEN /\ auxPc' = "reset_target"
               /\ lastCall' = BackendCall("resetChat", <<targetModelId>>)
               /\ ret' = Ret("resetChat", "pending")
          ELSE /\ auxPc' = "idle"
               /\ lastCall' = NoCall
               /\ ret' = Ret("resetChat", "ok")
  /\ UNCHANGED <<engine, draftModelId, targetModelId, status>>
  /\ AuxFrame

\* await this.engine.resetChat(false, this.draftModelId) completes
ResetDraftDone ==
  /\ auxPc = "reset_draft"
  /\ IF engine # NULL /\ targetModelId # NULL
     THEN /\ auxPc' = "reset_target"
          /\ lastCall' = BackendCall("resetChat", <<targetModelId>>)
          /\ ret' = ret
     ELSE /\ auxPc' = "idle"
          /\ lastCall' = lastCall
          /\ ret' = Ret("resetChat", "ok")
  /\ UNCHANGED <<engine, draftModelId, targetModelId, status>>
  /\ AuxFrame

\* await this.engine.resetChat(false, this.targetModelId) completes
ResetTargetDone ==
  /\ auxPc = "reset_target"
  /\ auxPc' = "idle"
  /\ ret' = Ret("resetChat", "ok")
  /\ UNCHANGED <<engine, draftModelId, targetModelId, status, lastCall>>
  /\ AuxFrame

\* a backend resetChat rejects: the rejection propagates, nothing is caught
ResetFails ==
  /\ auxPc \in {"reset_draft", "reset_target"}
  /\ auxPc' = "idle"
  /\ ret' = Ret("resetChat", "BackendFailure")
  /\ UNCHANGED <<engine, draftModelId, targetModelId, status, lastCall>>
  /\ AuxFrame

\* unload(), up to the await
Unload ==
  /\ auxPc = "idle"
  /\ auxPc' = "unload"
  /\ lastCall' = IF engine # NULL THEN BackendCall("unload", <<>>) ELSE NoCall
  /\ ret' = Ret("unload", "pending")
  /\ UNCHANGED <<engine, draftModelId, targetModelId, status>>
  /\ AuxFrame

\* an unload that forgets to clear the model identifiers
UnloadDoneKeepsIdentifiers ==
  /\ auxPc = "unload"
  /\ engine' = NULL
  /\ status' = "idle"
  /\ emitted' = Info("idle", 0, emptyStats)
  /\ auxPc' = "idle"
  /\ ret' = Ret("unload", "ok")
  /\ UNCHANGED <<draftModelId, targetModelId, aborted, gen, load, lastCall>>

\* await this.engine?.unload() completes
UnloadDone ==
  /\ auxPc = "unload"
  /\ engine' = NULL
  /\ draftModelId' = NULL
  /\ targetModelId' = NULL
  /\ status' = "idle"
  /\ emitted' = Info("idle", 0, emptyStats)
  /\ auxPc' = "idle"
  /\ ret' = Ret("unload", "ok")
  /\ UNCHANGED <<aborted, gen, load, lastCall>>

\* the backend unload rejects
UnloadFails ==
  /\ auxPc = "unload"
  /\ lastCall.fn = "unload"
  /\ auxPc' = "idle"
  /\ ret' = Ret("unload", "BackendFailure")
  /\ UNCHANGED <<engine, draftModelId, targetModelId, status, lastCall>>
  /\ AuxFrame

\* ----------------------------------------------------------------- abort
Abort ==
  /\ aborted' = TRUE
  /\ UNCHANGED <<engine, draftModelId, targetModelId, status, emitted,
                 gen, load, auxPc, lastCall, ret>>

\* -------------------------------------------------------------- generate
(***************************************************************************)
(* A frame is what the synchronous code of generate() reads and writes     *)
(* between two awaits: the locals of the call and the engine's status, the *)
(* last progress event, the last backend call and the call's outcome.  The *)
(* operators below are the segments of generate(); each maps the frame at  *)
(* the point where the segment starts to the frame at the next await or at *)
(* the return.                                                             *)
(***************************************************************************)
Frame ==
  [gen |-> gen, status |-> status, emitted |-> emitted,
   lastCall |-> lastCall, ret |-> ret]

\* this.emit(s, 0, st)
Emit(f, s, st) == [f EXCEPT !.status = s, !.emitted = Info(s, 0, st)]

\* reading a method of this.engine after an unload() has set it to null
\* throws a TypeError, which rejects the call like any other exception
OnNullEngine(f) ==
  [f EXCEPT !.gen = GenIdle,
            !.ret = [Ret("generate", "TypeError") EXCEPT !.config = f.gen.cfg]]

\* issue a backend call on this.engine and suspend on it
Await(f, call, pc) ==
  IF engine = NULL
  THEN OnNullEngine(f)
  ELSE [f EXCEPT !.lastCall = call, !.gen.pc = pc]

\* a return that emits and returns the statistics as the loop left them
FinishKeepsStaleStats(f) ==
  [Emit(f, "ready", f.gen.stats) EXCEPT
     !.gen = GenIdle,
     !.ret = [Ret("generate", "ok") EXCEPT !.config = f.gen.cfg,
                                           !.text = f.gen.fullText,
                                           !.stats = f.gen.stats,
                                           !.onToken = f.gen.onToken]]

\* lines 319-328: final stats, emit('ready'), return
Finish(f) ==
  LET stats == UpdateStats(f.gen.stats) IN
  [Emit(f, "ready", stats) EXCEPT
     !.gen = GenIdle,
     !.ret = [Ret("generate", "ok") EXCEPT !.config = f.gen.cfg,
                                           !.text = f.gen.fullText,
                                           !.stats = stats,
                                           !.onToken = f.gen.onToken]]

\* lines 233-239: the head of the draft loop
DraftLoop(f) ==
  LET r == f.gen.round IN
  IF Len(r.draftTokens) < f.gen.cfg.draftLength
  THEN Await(f,
             SampleCall(IF Len(r.draftTokens) > 0 THEN <<Last(r.draftTokens)>> ELSE <<>>,
                        Len(r.draftTokens) = 0, draftModelId),
             "draft")
  ELSE f

\* a loop head that does not consult this.aborted
RoundLoopIgnoresAbort(f) ==
  IF f.gen.totalGenerated < f.gen.cfg.maxTokens
  THEN DraftLoop([f EXCEPT !.gen.stats.draftRounds = @ + 1,
                           !.gen.round = [NoRound EXCEPT !.base = f.gen.stats]])
  ELSE Finish(f)

\* lines 226-231: the head of the round loop
RoundLoop(f) ==
  IF f.gen.totalGenerated < f.gen.cfg.maxTokens /\ ~aborted
  THEN DraftLoop([f EXCEPT !.gen.stats.draftRounds = @ + 1,
                           !.gen.round = [NoRound EXCEPT !.base = f.gen.stats]])
  ELSE Finish(f)

\* a verify step that feeds the target the token it sampled last
VerifyLoopFeedsTargetToken(f) ==
  LET r == f.gen.round
      i == Len(r.verified)
  IN Await(f, SampleCall(IF i = 0 THEN <<>> ELSE <<r.verified[i]>>,
                         TRUE, targetModelId),
           "verify")

\* lines 256-262: the head of the verify loop
VerifyLoop(f) ==
  LET r == f.gen.round
      i == Len(r.verified)
  IN Await(f, SampleCall(IF i = 0 THEN <<>> ELSE <<r.draftTokens[i]>>,
                         i = 0, targetModelId),
           "verify")

\* a draft phase end that also leaves the round when abort() has been called
AfterDraftChecksAbort(f) ==
  IF Len(f.gen.round.draftTokens) = 0 \/ aborted
  THEN Finish(f)
  ELSE VerifyLoop(f)

\* lines 248-254: after the draft loop
AfterDraft(f) ==
  IF Len(f.gen.round.draftTokens) = 0
  THEN Finish(f)
  ELSE VerifyLoop(f)

\* a round end without the zero-acceptance break
AfterBonusNoZeroCheck(f) ==
  Await(f, BackendCall("getMessage", <<targetModelId>>), "getMessage")

\* lines 291-295: after the bonus step
AfterBonus(f) ==
  IF Len(f.gen.round.acceptedTokens) = 0
  THEN Finish(f)
  ELSE Await(f, BackendCall("getMessage", <<targetModelId>>), "getMessage")

\* lines 278-284: after the verify loop
AfterVerify(f) ==
  LET r == f.gen.round IN
  IF Len(r.acceptedTokens) = Len(r.draftTokens) /\ ~r.draftHitEos
  THEN Await(f, SampleCall(<<Last(r.draftTokens)>>, FALSE, targetModelId), "bonus")
  ELSE AfterBonus(f)

\* a draft step that pushes the sampled token before it tests for EOS
OnDraftTokenPushesEos(f, token) ==
  LET f1 == [f EXCEPT !.gen.round.draftTokens = Append(@, token)]
  IN IF IsEos(token)
     THEN AfterDraft([f1 EXCEPT !.gen.round.draftHitEos = TRUE])
     ELSE IF Len(f1.gen.round.draftTokens) < f1.gen.cfg.draftLength
          THEN DraftLoop(f1)
          ELSE AfterDraft(f1)

\* lines 241-246: a draft sample returned
OnDraftToken(f, token) ==
  IF IsEos(token)
  THEN AfterDraft([f EXCEPT !.gen.round.draftHitEos = TRUE])
  ELSE LET f1 == [f EXCEPT !.gen.round.draftTokens = Append(@, token)]
       IN IF Len(f1.gen.round.draftTokens) < f1.gen.cfg.draftLength
          THEN DraftLoop(f1)
          ELSE AfterDraft(f1)

\* a verify step that goes on to the next position after a mismatch
OnTargetTokenGoesOn(f, targetToken) ==
  LET r == f.gen.round
      i == Len(r.verified)
      f0 == [f EXCEPT !.gen.round.verified = Append(@, targetToken)]
      f1 == IF targetToken = r.draftTokens[i + 1]
            THEN [f0 EXCEPT !.gen.round.acceptedTokens = Append(@, targetToken),
                            !.gen.stats.acceptedTokens = @ + 1]
            ELSE [f0 EXCEPT !.gen.round.acceptedTokens =
                               IF ~IsEos(targetToken) THEN Append(@, targetToken) ELSE @,
                            !.gen.stats.rejectedTokens = @ + 1]
  IN IF i + 1 < Len(r.draftTokens) THEN VerifyLoop(f1) ELSE AfterVerify(f1)

\* lines 264-276: a verify sample returned
OnTargetToken(f, targetToken) ==
  LET r == f.gen.round
      i == Len(r.verified)
      f0 == [f EXCEPT !.gen.round.verified = Append(@, targetToken)]
  IN IF targetToken = r.draftTokens[i + 1]
     THEN LET f1 == [f0 EXCEPT !.gen.round.acceptedTokens = Append(@, targetToken),
                               !.gen.stats.acceptedTokens = @ + 1]
          IN IF i + 1 < Len(r.draftTokens) THEN VerifyLoop(f1) ELSE AfterVerify(f1)
     ELSE AfterVerify(
            [f0 EXCEPT !.gen.round.acceptedTokens =
                          IF ~IsEos(targetToken) THEN Append(@, targetToken) ELSE @,
                       !.gen.stats.rejectedTokens = @ + (Len(r.draftTokens) - i)])

\* a bonus step that keeps an end-of-sequence bonus token
OnBonusTokenKeepsEos(f, bonusToken) ==
  AfterBonus([f EXCEPT !.gen.round.bonusToken = bonusToken,
                       !.gen.round.acceptedTokens = Append(@, bonusToken),
                       !.gen.stats.acceptedTokens = @ + 1])

\* lines 285-289: the bonus sample returned
OnBonusToken(f, bonusToken) ==
  LET f0 == [f EXCEPT !.gen.round.bonusToken = bonusToken]
  IN AfterBonus(IF ~IsEos(bonusToken)
                THEN [f0 EXCEPT !.gen.round.acceptedTokens = Append(@, bonusToken),
                                !.gen.stats.acceptedTokens = @ + 1]
                ELSE f0)

\* a materialization that does not test the new text for emptiness
MaterializeAlways(f, currentMessage) ==
  LET newText == Slice(currentMessage, Len(f.gen.fullText))
      total == f.gen.totalGenerated + Len(f.gen.round.acceptedTokens)
      g == [f EXCEPT !.gen.fullText = currentMessage,
                     !.gen.totalGenerated = total,
                     !.gen.stats.totalTokens = total]
      h == [g EXCEPT !.gen.stats = UpdateStats(g.gen.stats),
                     !.gen.onToken = [count |-> @.count + 1, newText |-> newText,
                                      fullText |-> g.gen.fullText]]
  IN Emit(h, "generating", h.gen.stats)

\* lines 296-314: the new text of the round and what is done with it
Materialize(f, currentMessage) ==
  LET newText == Slice(currentMessage, Len(f.gen.fullText))
      total == f.gen.totalGenerated + Len(f.gen.round.acceptedTokens)
  IN IF newText # <<>>
     THEN LET g == [f EXCEPT !.gen.fullText = currentMessage,
                             !.gen.totalGenerated = total,
                             !.gen.stats.totalTokens = total]
              h == [g EXCEPT !.gen.stats = UpdateStats(g.gen.stats),
                             \* onToken?.(newText, fullText)
                             !.gen.onToken = [count |-> @.count + 1, newText |-> newText,
                                              fullText |-> g.gen.fullText]]
          IN Emit(h, "generating", h.gen.stats)
     ELSE f

\* a round end that goes back to the loop head whatever the draft phase hit
OnMessageIgnoresEos(f, currentMessage) ==
  RoundLoop(Materialize(f, currentMessage))

\* lines 295-316: getMessage returned
OnMessage(f, currentMessage) ==
  LET f1 == Materialize(f, currentMessage)
  IN IF f1.gen.round.draftHitEos THEN Finish(f1) ELSE RoundLoop(f1)

\* lines 233-246: the tokens a round adds to the draft model's context, which
\* is never rolled back: every token the draft model produced (an
\* end-of-sequence sample, which ends the call, aside)
DraftContext(r) == r.draftTokens

\* lines 256-289: the tokens a round adds to the target model's context: the
\* draft tokens it was fed as inputs, then the token it produced last
TargetContext(r) ==
  IF r.bonusToken # NoToken
  THEN Append(r.draftTokens, r.bonusToken)
  ELSE IF r.verified = <<>>
       THEN <<>>
       ELSE Append(SubSeq(r.draftTokens, 1, Len(r.verified) - 1), Last(r.verified))

\* write a frame back; a round beyond MaxRounds is not explored
Commit(f) ==
  /\ f.gen.stats.draftRounds <= MaxRounds
  /\ gen' = f.gen
  /\ status' = f.status
  /\ emitted' = f.emitted
  /\ lastCall' = f.lastCall
  /\ ret' = f.ret

GenFrame == UNCHANGED <<engine, draftModelId, targetModelId, load, auxPc>>

\* history: the call before this one was a generate() that returned counted
\* statistics (they are still in `ret` when the next call enters)
AfterGenerate ==
  /\ ret.op = "generate"
  /\ ret.outcome = "ok"
  /\ ret.stats.draftRounds > 0

\* history: the call before this one was such a generate() and the abort flag
\* is set when this call enters (abort() came during that call or after it)
AfterAbort == AfterGenerate /\ aborted

\* a generate that clears the abort flag before it checks the models
GenerateClearsAbortFirst(config) ==
  /\ gen.pc = "idle"
  /\ aborted' = FALSE
  /\ IF engine = NULL \/ draftModelId = NULL \/ targetModelId = NULL
     THEN /\ ret' = [Ret("generate", "NotLoaded") EXCEPT !.config = config]
          /\ lastCall' = NoCall
          /\ UNCHANGED <<gen, status, emitted>>
     ELSE Commit(Await(Emit([Frame EXCEPT !.gen = [GenIdle EXCEPT !.cfg = config],
                                          !.ret = [Ret("generate", "pending")
                                                     EXCEPT !.config = config]],
                            "generating", emptyStats),
                       BackendCall("chat.completions.create", <<draftModelId>>),
                       "prime_draft"))
  /\ GenFrame

\* a generate() that goes on counting from the statistics of the call before
GenerateKeepsStats(config) ==
  /\ gen.pc = "idle"
  /\ IF engine = NULL \/ draftModelId = NULL \/ targetModelId = NULL
     THEN /\ ret' = [Ret("generate", "NotLoaded") EXCEPT !.config = config]
          /\ lastCall' = NoCall
          /\ UNCHANGED <<gen, status, emitted, aborted>>
     ELSE /\ aborted' = FALSE
          /\ Commit(Await(Emit([Frame EXCEPT !.gen = [GenIdle EXCEPT !.cfg = config,
                                                                 !.afterGenerate = AfterGenerate,
                                                                 !.afterAbort = AfterAbort,
                                                                 !.stats = ret.stats],
                                             !.ret = [Ret("generate", "pending")
                                                        EXCEPT !.config = config]],
                               "generating", emptyStats),
                          BackendCall("chat.completions.create", <<draftModelId>>),
                          "prime_draft"))
  /\ GenFrame

\* a generate() that leaves the abort flag as it finds it
GenerateKeepsAbort(config) ==
  /\ gen.pc = "idle"
  /\ IF engine = NULL \/ draftModelId = NULL \/ targetModelId = NULL
     THEN /\ ret' = [Ret("generate", "NotLoaded") EXCEPT !.config = config]
          /\ lastCall' = NoCall
          /\ UNCHANGED <<gen, status, emitted>>
     ELSE Commit(Await(Emit([Frame EXCEPT !.gen = [GenIdle EXCEPT !.cfg = config,
                                                            !.afterGenerate = AfterGenerate,
                                                            !.afterAbort = AfterAbort],
                                          !.ret = [Ret("generate", "pending")
                                                     EXCEPT !.config = config]],
                            "generating", emptyStats),
                       BackendCall("chat.completions.create", <<draftModelId>>),
                       "prime_draft"))
  /\ UNCHANGED aborted
  /\ GenFrame

\* generate(messages, config, onToken), up to the first await
Generate(config) ==
  /\ gen.pc = "idle"
  /\ IF engine = NULL \/ draftModelId = NULL \/ targetModelId = NULL
     THEN \* throw new Error('Models not loaded')
          /\ ret' = [Ret("generate", "NotLoaded") EXCEPT !.config = config]
          /\ lastCall' = NoCall
          /\ UNCHANGED <<gen, status, emitted, aborted>>
     ELSE /\ aborted' = FALSE
          /\ Commit(Await(Emit([Frame EXCEPT !.gen = [GenIdle EXCEPT !.cfg = config,
                                                                 !.afterGenerate = AfterGenerate,
                                                                 !.afterAbort = AfterAbort],
                                             !.ret = [Ret("generate", "pending")
                                                        EXCEPT !.config = config]],
                               "generating", emptyStats),
                          BackendCall("chat.completions.create", <<draftModelId>>),
                          "prime_draft"))
  /\ GenFrame

\* the draft model's priming completion returned
PrimeDraftDone ==
  /\ gen.pc = "prime_draft"
  /\ Commit(Await(Frame, BackendCall("chat.completions.create", <<targetModelId>>),
                  "prime_target"))
  /\ UNCHANGED aborted
  /\ GenFrame

\* the target model's priming completion returned
PrimeTargetDone ==
  /\ gen.pc = "prime_target"
  /\ Commit(RoundLoop([Frame EXCEPT !.gen.fullText = <<>>, !.gen.totalGenerated = 0]))
  /\ UNCHANGED aborted
  /\ GenFrame

DraftSampleDone(token) ==
  /\ gen.pc = "draft"
  /\ Commit(OnDraftToken(Frame, token))
  /\ UNCHANGED aborted
  /\ GenFrame

VerifySampleDone(token) ==
  /\ gen.pc = "verify"
  /\ Commit(OnTargetToken(Frame, token))
  /\ UNCHANGED aborted
  /\ GenFrame

BonusSampleDone(token) ==
  /\ gen.pc = "bonus"
  /\ Commit(OnBonusToken(Frame, token))
  /\ UNCHANGED aborted
  /\ GenFrame

GetMessageDone(currentMessage) ==
  /\ gen.pc = "getMessage"
  /\ Commit(OnMessage(Frame, currentMessage))
  /\ UNCHANGED aborted
  /\ GenFrame

\* generate() has no try/catch: a rejected backend call rejects the call
OnBackendError(f) ==
  [f EXCEPT !.gen = GenIdle,
            !.ret = [Ret("generate", "BackendFailure") EXCEPT !.config = f.gen.cfg]]

BackendFails ==
  /\ gen.pc # "idle"
  /\ Commit(OnBackendError(Frame))
  /\ UNCHANGED aborted
  /\ GenFrame

\* ---------------------------------------------------------- specification
\* callers serialize the engine's asynchronous calls; abort() comes any time
Next ==
  \/ Serialized /\ \E pair \in MODEL_PAIRS : LoadModels(pair)
  \/ \E progress \in ProgressReports : InitProgress(progress)
  \/ ReloadDraftDone
  \/ ReloadBothDone
  \/ ReloadFails
  \/ Serialized /\ \E config \in Configs : Generate(config)
  \/ PrimeDraftDone
  \/ PrimeTargetDone
  \/ \E token \in Tokens : DraftSampleDone(token)
  \/ \E token \in Tokens : VerifySampleDone(token)
  \/ \E token \in Tokens : BonusSampleDone(token)
  \/ \E currentMessage \in Texts : GetMessageDone(currentMessage)
  \/ BackendFails
  \/ Serialized /\ ResetChat
  \/ ResetDraftDone
  \/ ResetTargetDone
  \/ ResetFails
  \/ Serialized /\ Unload
  \/ UnloadDone
  \/ UnloadFails
  \/ Abort

Spec == Init /\ [][Next]_vars

\* the engine itself has no busy guard: a caller may start loadModels(),
\* generate(), resetChat() or unload() while another call is suspended on a
\* backend call (at most one call of each kind is explored at a time)
ConcurrentPairs == {pair \in MODEL_PAIRS : pair.targetId = "Llama-3.1-8B"}

ConcurrentProgress == {50}

ConcurrentConfigs == {[draftLength |-> 1, maxTokens |-> 1]}

NextConcurrent ==
  \/ \E pair \in ConcurrentPairs : LoadModels(pair)
  \/ \E progress \in ConcurrentProgress : InitProgress(progress)
  \/ ReloadDraftDone
  \/ ReloadBothDone
  \/ ReloadFails
  \/ \E config \in ConcurrentConfigs : Generate(config)
  \/ PrimeDraftDone
  \/ PrimeTargetDone
  \/ \E token \in Tokens : DraftSampleDone(token)
  \/ \E token \in Tokens : VerifySampleDone(token)
  \/ \E token \in Tokens : BonusSampleDone(token)
  \/ \E currentMessage \in Texts : GetMessageDone(currentMessage)
  \/ BackendFails
  \/ ResetChat
  \/ ResetDraftDone
  \/ ResetTargetDone
  \/ ResetFails
  \/ Unload
  \/ UnloadDone
  \/ UnloadFails
  \/ Abort

SpecConcurrent == Init /\ [][NextConcurrent]_vars

TypeOK ==
  /\ engine \in {NULL, "MLCEngine"}
  /\ status \in InferenceStatus
  /\ aborted \in BOOLEAN
  /\ gen.cfg \in Configs
  /\ gen.afterGenerate \in BOOLEAN
  /\ gen.afterAbort \in BOOLEAN
  /\ gen.stats.draftRounds \in 0..MaxRounds

\* ================================================================ claims
Returned(op, outcome) == ret.op = op /\ ret.outcome = outcome

\* the step is the entry of an API call
Called(op) == ret'.op = op /\ ret' # ret /\ ret'.outcome \in {"pending", "ok", "NotLoaded"}

\* C1: a backend failure inside generate() leaves the engine status `error`.
C1_GenerateFailureSetsError ==
  Returned("generate", "BackendFailure") => status = "error"

\* C2: the totalTokens that generate() returns never exceeds config.maxTokens.
C2_TotalWithinBudget ==
  Returned("generate", "ok") => ret.stats.totalTokens <= ret.config.maxTokens

\* the round's bonus sample has been issued
BonusSampled == gen.pc = "bonus" \/ gen.round.bonusToken # NoToken

\* every draft token of the round matched the target's token at its position
FullMatch == gen.round.verified = gen.round.draftTokens

\* C3: in a round, the bonus token is sampled iff every draft token matched
\* and the draft phase did not hit end-of-sequence; a non-EOS bonus token is
\* appended to the accepted tokens and counted, giving n + 1 accepted tokens.
C3_BonusIffFullMatch ==
  gen.pc \in {"bonus", "getMessage"} =>
    LET r == gen.round IN
    /\ BonusSampled <=> (FullMatch /\ ~r.draftHitEos)
    /\ (r.bonusToken # NoToken /\ ~IsEos(r.bonusToken)) =>
         /\ r.acceptedTokens = Append(r.draftTokens, r.bonusToken)
         /\ gen.stats.acceptedTokens = r.base.acceptedTokens + Len(r.draftTokens) + 1

\* C4: in a round whose first mismatch is at position i with a non-EOS target
\* token, the accepted tokens are draft[0..i-1] followed by the target's
\* token, acceptedTokens grows by i and rejectedTokens by draftTokens.length - i.
C4_MismatchAccounting ==
  LET r == gen.round
      i == Len(r.verified) - 1
  IN (gen.pc = "getMessage" /\ ~FullMatch /\ ~IsEos(Last(r.verified))) =>
       /\ r.acceptedTokens = Append(SubSeq(r.draftTokens, 1, i), Last(r.verified))
       /\ gen.stats.acceptedTokens = r.base.acceptedTokens + i
       /\ gen.stats.rejectedTokens = r.base.rejectedTokens + (Len(r.draftTokens) - i)

\* C5: once abort() has been called during a generate() call, the call starts
\* no further round: the round in flight runs on, the loop head that follows
\* it (or follows priming) leaves the loop, and the call returns with status
\* `ready`.
C5_AbortStopsRounds ==
  [][(aborted /\ gen.pc # "idle") =>
       /\ gen'.pc # "idle" => gen'.stats.draftRounds = gen.stats.draftRounds
       /\ (gen.pc \in {"prime_target", "getMessage"} /\ gen' # gen) => gen'.pc = "idle"
       /\ (gen'.pc = "idle" /\ ret'.outcome = "ok") => status' = "ready"]_vars

\* abort() came during a round that would otherwise be followed by another
C5_Witness ==
  /\ aborted
  /\ gen.pc = "getMessage"
  /\ ~gen.round.draftHitEos
  /\ gen.totalGenerated + Len(gen.round.acceptedTokens) < gen.cfg.maxTokens

\* C6: the round loop always ends; with no abort, no end-of-sequence and no
\* zero-acceptance round it ends by reaching maxTokens, every round that is
\* followed by another adding at least one generated token, so that a call
\* starts at most maxTokens rounds.
C6_RoundsWithinBudget ==
  gen.stats.draftRounds <= gen.cfg.maxTokens

\* C7: when loadModels(pair) returns without throwing, the status is `ready`
\* and getLoadedPair() is pair.
C7_LoadReturnsReady ==
  Returned("loadModels", "ok") => status = "ready" /\ getLoadedPair = ret.pair

\* C8: a failing backend load makes loadModels rethrow with status `error`,
\* without attempting the combined load after a failed draft load, and no
\* step of the failing call changes the resident pair identifiers.
C8_LoadFailure ==
  [][((load.pc # "idle" \/ load'.pc # "idle") /\ ret'.outcome # "ok") =>
       /\ draftModelId' = draftModelId /\ targetModelId' = targetModelId
       /\ (load.pc # "idle" /\ load'.pc = "idle") =>
            /\ ret' = [ret EXCEPT !.outcome = "BackendFailure"]
            /\ status' = "error"
            /\ lastCall' = lastCall]_vars

\* the draft load of a pair failed while another pair's identifiers were recorded
C8_Witness ==
  /\ Returned("loadModels", "BackendFailure")
  /\ status = "error"
  /\ lastCall = BackendCall("reload", <<ret.pair.draftId>>)
  /\ getLoadedPair # NoPair
  /\ getLoadedPair # ret.pair

\* C9: generate() with no model pair resident throws the not-loaded error
\* without a backend call and leaves status, identifiers and abort flag alone.
C9_GenerateNotLoaded ==
  [][(gen.pc = "idle" /\ Called("generate") /\ getLoadedPair = NoPair) =>
       /\ ret'.outcome = "NotLoaded"
       /\ lastCall' = NoCall
       /\ gen'.pc = "idle"
       /\ UNCHANGED <<status, emitted, engine, draftModelId, targetModelId, aborted>>]_vars

\* generate() threw not-loaded after an unload, the abort flag being set
C9_Witness ==
  /\ Returned("generate", "NotLoaded")
  /\ aborted
  /\ status = "idle"
  /\ emitted.status = "idle"
  /\ lastCall = NoCall

\* C10 (as stated): resetChat() with no model pair resident signals NotLoaded.
C10_ResetSignalsNotLoaded ==
  (ret.op = "resetChat" /\ ret.outcome # "pending" /\ getLoadedPair = NoPair) =>
    ret.outcome = "NotLoaded"

\* C10 (amended): resetChat() with no model pair resident returns normally,
\* without a backend call and without changing the engine's state.
C10_ResetIsNoOp ==
  [][(auxPc = "idle" /\ Called("resetChat") /\ getLoadedPair = NoPair) =>
       /\ ret'.outcome = "ok"
       /\ lastCall' = NoCall
       /\ auxPc' = "idle"
       /\ UNCHANGED <<status, emitted, engine, draftModelId, targetModelId, aborted>>]_vars

\* resetChat() returned normally on an engine whose first load had failed
C10_Witness ==
  /\ Returned("resetChat", "ok")
  /\ getLoadedPair = NoPair
  /\ engine # NULL
  /\ lastCall = NoCall

\* C11: over any sequence of loadModels, generate, abort and unload calls the
\* status changes only along the listed state machine (idle -> loading-model
\* -> ready -> generating -> ready, -> error on failure, error ->
\* loading-model, -> idle by unload); in particular `generating` is entered
\* only from `ready`.
C11_GeneratingOnlyFromReady ==
  [][(status' = "generating" /\ status # "generating") => status = "ready"]_vars

\* C12: when unload() completes, the status is idle, getLoadedPair() is null
\* and isReady() is false; from then on generate() throws not-loaded, and the
\* pair stays null, until a loadModels call succeeds.
C12_UnloadClears ==
  [][/\ (auxPc = "unload" /\ auxPc' = "idle" /\ ret'.outcome = "ok") =>
          status' = "idle" /\ getLoadedPair' = NoPair /\ ~isReady'
     /\ (getLoadedPair = NoPair /\ gen.pc = "idle" /\ Called("generate")) =>
          ret'.outcome = "NotLoaded" /\ gen'.pc = "idle"
     /\ (getLoadedPair = NoPair /\ getLoadedPair' # NoPair) =>
          ret'.op = "loadModels" /\ ret'.outcome = "ok"]_vars

\* unload() completed on an engine that held models
C12_Witness ==
  /\ Returned("unload", "ok")
  /\ lastCall = BackendCall("unload", <<>>)
  /\ status = "idle"
  /\ getLoadedPair = NoPair
  /\ ~isReady

\* C13: loadModels(pair) with exactly that pair resident returns at once, with
\* no backend call, no progress event and no change of status or identifiers;
\* with any other pair it starts a full reload.
C13_AlreadyLoaded ==
  [][(load.pc = "idle" /\ Called("loadModels")) =>
       IF getLoadedPair = ret'.pair
       THEN /\ ret'.outcome = "ok"
            /\ lastCall' = NoCall
            /\ load'.pc = "idle"
            /\ UNCHANGED <<status, emitted, engine, draftModelId, targetModelId>>
       ELSE /\ ret'.outcome = "pending"
            /\ load'.pc = "reload_draft"
            /\ lastCall' = BackendCall("reload", <<ret'.pair.draftId>>)
            /\ status' = "loading-model"
            /\ emitted' = Info("loading-model", 0, emptyStats)]_vars

\* loadModels returned at once for the resident pair
C13_Witness ==
  /\ Returned("loadModels", "ok")
  /\ lastCall = NoCall
  /\ getLoadedPair = ret.pair
  /\ status = "ready"

\* C14: in a round with a mismatch at position i, rejectedTokens grows by
\* draftTokens.length - i, and the growth of acceptedTokens plus the growth
\* of rejectedTokens is draftTokens.length.
C14_RoundAccounting ==
  LET r == gen.round
      i == Len(r.verified) - 1
      accepted == gen.stats.acceptedTokens - r.base.acceptedTokens
      rejected == gen.stats.rejectedTokens - r.base.rejectedTokens
  IN (gen.pc = "getMessage" /\ ~FullMatch) =>
       /\ rejected = Len(r.draftTokens) - i
       /\ accepted + rejected = Len(r.draftTokens)

\* C15 (as stated): a round in which every draft token matches accepts
\* draftLength or draftLength + 1 tokens, never less.
C15_FullMatchAcceptsDraftLength ==
  (gen.pc = "getMessage" /\ FullMatch) =>
    Len(gen.round.acceptedTokens) \in {gen.cfg.draftLength, gen.cfg.draftLength + 1}

\* C15 (amended): a round in which every draft token matches accepts every
\* token the draft phase proposed, plus one when it samples a non-EOS bonus
\* token: draftLength or draftLength + 1 tokens when the draft phase did not
\* hit end-of-sequence, and the smaller number of tokens drafted before the
\* end-of-sequence token (with no bonus) when it did.
C15_FullMatchAcceptsDraft ==
  (gen.pc = "getMessage" /\ FullMatch) =>
    LET r == gen.round
        n == Len(r.draftTokens)
    IN IF r.draftHitEos
       THEN /\ 1 <= n /\ n < gen.cfg.draftLength
            /\ r.acceptedTokens = r.draftTokens
       ELSE /\ n = gen.cfg.draftLength
            /\ Len(r.acceptedTokens) = (IF IsEos(r.bonusToken) THEN n ELSE n + 1)
            /\ SubSeq(r.acceptedTokens, 1, n) = r.draftTokens

\* every token of a draft cut short by end-of-sequence matched
C15_Witness ==
  /\ gen.pc = "getMessage"
  /\ FullMatch
  /\ gen.round.draftHitEos
  /\ Len(gen.round.acceptedTokens) < gen.cfg.draftLength

\* C16: when the first token the draft model samples in a round is
\* end-of-sequence, generate() returns at once: no target sample is issued, the
\* text and totalTokens are those before the round, the status is `ready`; in
\* the first round the text is empty and totalTokens is 0.  No verify phase
\* ever runs on an empty draft or on a draft holding an end-of-sequence token.
C16_FirstDraftEos ==
  [][/\ (gen.pc = "draft" /\ gen.round.draftTokens = <<>> /\ gen'.pc = "idle"
           /\ ret'.outcome = "ok") =>
          /\ lastCall' = lastCall
          /\ status' = "ready"
          /\ ret'.text = gen.fullText
          /\ ret'.stats.totalTokens = gen.stats.totalTokens
          /\ gen.stats.draftRounds = 1 => ret'.text = <<>> /\ ret'.stats.totalTokens = 0
     /\ gen'.pc \in {"verify", "bonus", "getMessage"} =>
          /\ Len(gen'.round.draftTokens) >= 1
          /\ \A k \in 1..Len(gen'.round.draftTokens) : ~IsEos(gen'.round.draftTokens[k])]_vars

\* the first draft sample of the first round was end-of-sequence
C16_Witness ==
  /\ Returned("generate", "ok")
  /\ lastCall = SampleCall(<<>>, TRUE, draftModelId)
  /\ ret.stats.draftRounds = 1
  /\ ret.stats.totalTokens = 0
  /\ ret.text = <<>>
  /\ status = "ready"

\* C17: a round that accepts no token (mismatch at position 0, the target's
\* token being end-of-sequence) ends generate() normally: it returns the text
\* produced so far, status `ready`, totalTokens as before the round, and no
\* text is materialized for a round without accepted tokens.
C17_ZeroAcceptance ==
  [][/\ (gen.pc \in {"verify", "bonus"} /\ gen'.pc = "idle"
           /\ ret'.outcome # "BackendFailure") =>
          /\ gen.pc = "verify"
          /\ gen.round.verified = <<>> /\ gen.round.acceptedTokens = <<>>
          /\ ret'.outcome = "ok"
          /\ status' = "ready"
          /\ lastCall' = lastCall
          /\ ret'.text = gen.fullText
          /\ ret'.stats.totalTokens = gen.stats.totalTokens
     /\ gen'.pc = "getMessage" => Len(gen'.round.acceptedTokens) >= 1]_vars

\* the second round accepted nothing after the first had produced text
C17_Witness ==
  /\ Returned("generate", "ok")
  /\ lastCall = SampleCall(<<>>, TRUE, targetModelId)
  /\ ret.stats.draftRounds = 2
  /\ ret.text # <<>>
  /\ status = "ready"

\* avgAcceptanceLength of a stats value is acceptedTokens / draftRounds, or 0
AvgOk(st) ==
  /\ st.avgAcceptanceLength.den > 0
  /\ IF st.draftRounds > 0
     THEN FracEq(st.avgAcceptanceLength, Frac(st.acceptedTokens, st.draftRounds))
     ELSE FracEq(st.avgAcceptanceLength, Zero)

\* C18: in the stats returned by generate() and in every stats value handed
\* to the progress callback, as it is at the moment of the emit,
\* avgAcceptanceLength is acceptedTokens / draftRounds when draftRounds > 0
\* and 0 otherwise, also when no round materialized text.
C18_AvgAcceptanceLength ==
  /\ AvgOk(emitted.stats)
  /\ Returned("generate", "ok") => AvgOk(ret.stats) /\ emitted.stats = ret.stats

\* a call whose rounds accepted tokens but materialized no text
C18_Witness ==
  /\ Returned("generate", "ok")
  /\ ret.stats.totalTokens = 0
  /\ ret.stats.draftRounds > 0
  /\ ret.stats.acceptedTokens > 0
  /\ FracEq(ret.stats.avgAcceptanceLength,
            Frac(ret.stats.acceptedTokens, ret.stats.draftRounds))
  /\ ~FracEq(ret.stats.avgAcceptanceLength, Zero)

\* estimatedSpeedup of a stats value is max(1, avgAcceptanceLength)
SpeedupOk(st) ==
  /\ st.estimatedSpeedup.den > 0
  /\ FracGeq(st.estimatedSpeedup, One)
  /\ FracGeq(st.estimatedSpeedup, st.avgAcceptanceLength)
  /\ \/ FracEq(st.estimatedSpeedup, One)
     \/ FracEq(st.estimatedSpeedup, st.avgAcceptanceLength)

\* C19: estimatedSpeedup is at least 1 in every stats value the engine emits
\* (load progress, the initial `generating` event, per-round events, the final
\* `ready`) or returns, and is max(1, avgAcceptanceLength).
C19_EstimatedSpeedup ==
  /\ SpeedupOk(emitted.stats)
  /\ Returned("generate", "ok") => SpeedupOk(ret.stats)

\* a call that accepted less than one token per round reports speedup 1
C19_Witness ==
  /\ Returned("generate", "ok")
  /\ ret.stats.draftRounds > 0
  /\ ret.stats.acceptedTokens < ret.stats.draftRounds
  /\ ret.stats.avgAcceptanceLength = Frac(ret.stats.acceptedTokens, ret.stats.draftRounds)
  /\ ret.stats.estimatedSpeedup = One
  /\ emitted = Info("ready", 0, ret.stats)

\* C20: each generate() call starts from zeroed statistics, whatever an
\* earlier call on the same instance counted: the call enters with emptyStats
\* (emitted and held), keeps them while priming, counts its first round as
\* round 1 with no tokens yet, and returns emptyStats when it ends before its
\* first round.
C20_StatsStartFromZero ==
  [][/\ (Called("generate") /\ ret'.outcome = "pending") =>
          /\ gen'.stats = emptyStats
          /\ emitted' = Info("generating", 0, emptyStats)
     /\ gen'.pc \in {"prime_draft", "prime_target"} => gen'.stats = emptyStats
     /\ (gen.pc = "prime_target" /\ gen'.pc = "draft") =>
          gen'.stats = [emptyStats EXCEPT !.draftRounds = 1]
     /\ (gen.pc = "prime_target" /\ gen'.pc = "idle" /\ ret'.outcome = "ok") =>
          ret'.stats = emptyStats /\ emitted' = Info("ready", 0, emptyStats)]_vars

\* the first round of a call that follows a call with counted statistics
C20_Witness ==
  /\ gen.afterGenerate
  /\ gen.pc = "draft"
  /\ gen.round.draftTokens = <<>>
  /\ gen.stats = [emptyStats EXCEPT !.draftRounds = 1]

\* backend calls awaited by the engine's calls (the await of unload(), which
\* issues no backend call on a null engine, is not counted)
BackendCallsInFlight ==
  (IF gen.pc # "idle" THEN 1 ELSE 0)
  + (IF load.pc # "idle" THEN 1 ELSE 0)
  + (IF auxPc \in {"reset_draft", "reset_target"} THEN 1 ELSE 0)

\* C21: for one engine instance at most one backend call is in flight at any
\* time, over all interleavings of calls the engine admits.
C21_OneBackendCallInFlight == BackendCallsInFlight <= 1

\* C22 (as stated): the load progress emitted while the draft model loads lies
\* in [0, 0.5), the progress emitted during the combined load in [0.5, 1.0],
\* and a successful load ends with progress 1.0 (progress in percent).
C22_ProgressHalfOpen ==
  [][/\ load'.pc = "reload_draft" =>
          emitted'.loadProgress >= 0 /\ emitted'.loadProgress < 50
     /\ (load.pc = "reload_both" /\ load'.pc = "reload_both" /\ emitted' # emitted) =>
          emitted'.loadProgress >= 50 /\ emitted'.loadProgress <= 100
     /\ (load.pc = "reload_both" /\ load'.pc = "idle" /\ ret'.outcome = "ok") =>
          emitted' = Info("ready", 100, emptyStats)]_vars

\* C22 (amended): the load progress emitted while the draft model loads lies
\* in [0, 0.5], reaching 0.5 when the backend reports the draft load complete
\* (p = 1); the progress emitted during the combined load lies in [0.5, 1.0];
\* a successful load ends with progress exactly 1.0.
C22_ProgressClosed ==
  [][/\ load'.pc = "reload_draft" =>
          /\ emitted'.status = "loading-model"
          /\ emitted'.loadProgress >= 0 /\ emitted'.loadProgress <= 50
     /\ (load.pc = "reload_both" /\ load'.pc = "reload_both" /\ emitted' # emitted) =>
          /\ emitted'.status = "loading-model"
          /\ emitted'.loadProgress >= 50 /\ emitted'.loadProgress <= 100
     /\ (load.pc = "reload_both" /\ load'.pc = "idle" /\ ret'.outcome = "ok") =>
          emitted' = Info("ready", 100, emptyStats)]_vars

\* the backend reported the draft load complete: progress 0.5 in the draft phase
C22_Witness ==
  /\ load.pc = "reload_draft"
  /\ load.currentModelIndex = 0
  /\ emitted = Info("loading-model", 50, emptyStats)

\* C23: when the accumulated text of a round that accepted tokens comes back,
\* the full text, totalTokens and the derived statistics are updated and
\* onToken is invoked exactly once, with the new suffix and the full text, iff
\* the accumulated text is longer than the text already emitted; totalTokens
\* then grows by the number of tokens the round accepted; otherwise nothing
\* changes and no callback fires.
C23_Materialize ==
  gen.pc = "getMessage" =>
    /\ Len(gen.round.acceptedTokens) >= 1
    /\ \A currentMessage \in Texts :
         LET f == Materialize(Frame, currentMessage)
             total == gen.totalGenerated + Len(gen.round.acceptedTokens)
         IN IF Len(currentMessage) > Len(gen.fullText)
            THEN /\ f.gen.fullText = currentMessage
                 /\ f.gen.totalGenerated = total
                 /\ f.gen.stats.totalTokens = total
                 /\ f.gen.stats = UpdateStats([gen.stats EXCEPT !.totalTokens = total])
                 /\ f.gen.onToken =
                      [count |-> gen.onToken.count + 1,
                       newText |-> Slice(currentMessage, Len(gen.fullText)),
                       fullText |-> currentMessage]
                 /\ f.emitted = Info("generating", 0, f.gen.stats)
                 /\ f.gen.round = gen.round
            ELSE f = Frame

\* a call whose first round materialized text and whose second round did not
C23_Witness ==
  /\ Returned("generate", "ok")
  /\ lastCall = BackendCall("getMessage", <<targetModelId>>)
  /\ ret.stats.draftRounds = 2
  /\ ret.stats.acceptedTokens > ret.stats.totalTokens
  /\ ret.onToken.count = 1
  /\ ret.onToken.fullText = ret.text
  /\ ret.onToken.newText = ret.text
  /\ ret.stats.totalTokens >= 1

\* C24: the verify phase samples the target once per draft position, in
\* order, stopping at the first mismatch; the call for position 0 passes no
\* input token with the fresh-continuation flag set, the call for position
\* i > 0 passes draft token i - 1 with the flag clear.
C24_VerifyInputs ==
  LET r == gen.round
      n == Len(r.verified)
  IN /\ gen.pc = "verify" =>
          /\ n < Len(r.draftTokens)
          /\ r.verified = SubSeq(r.draftTokens, 1, n)
          /\ lastCall = SampleCall(IF n = 0 THEN <<>> ELSE <<r.draftTokens[n]>>,
                                   n = 0, targetModelId)
     /\ gen.pc \in {"bonus", "getMessage"} =>
          /\ 1 <= n /\ n <= Len(r.draftTokens)
          /\ SubSeq(r.verified, 1, n - 1) = SubSeq(r.draftTokens, 1, n - 1)
          /\ r.verified[n] = r.draftTokens[n] => n = Len(r.draftTokens)

\* the target is being sampled at position 1 after a match at position 0
C24_Witness ==
  /\ gen.pc = "verify"
  /\ Len(gen.round.verified) = 1
  /\ gen.round.verified[1] = gen.round.draftTokens[1]
  /\ lastCall = SampleCall(<<gen.round.draftTokens[1]>>, FALSE, targetModelId)

\* C25: each round continues from the accepted position.  When the second
\* round starts, the draft model's context and the target model's context
\* (the prompt followed by the tokens the model was fed or produced in the
\* first round) are both the prompt followed by the tokens the first round
\* accepted.
C25_ContinuesFromAccepted ==
  [][(gen.pc = "getMessage" /\ gen.stats.draftRounds = 1 /\ gen'.pc = "draft") =>
       /\ DraftContext(gen.round) = gen.round.acceptedTokens
       /\ TargetContext(gen.round) = gen.round.acceptedTokens]_vars

\* C26: when the draft phase hits end-of-sequence after proposing at least
\* one token, the round samples no bonus token, its accepted tokens are
\* materialized like those of any other round, and generate() returns after
\* the round without starting another draft phase.
C26_DraftEosEndsAfterRound ==
  [][(gen.pc # "idle" /\ gen.round.draftHitEos) =>
       /\ gen.pc \in {"verify", "getMessage"}
       /\ 1 <= Len(gen.round.draftTokens)
       /\ Len(gen.round.draftTokens) < gen.cfg.draftLength
       /\ gen.round.bonusToken = NoToken
       /\ gen'.pc \in {"verify", "getMessage", "idle"}
       /\ gen'.pc # "idle" =>
            /\ gen'.round.draftHitEos
            /\ gen'.round.draftTokens = gen.round.draftTokens
            /\ gen'.stats.draftRounds = gen.stats.draftRounds
       /\ (gen.pc = "getMessage" /\ gen' # gen) =>
            /\ gen'.pc = "idle"
            /\ ret'.outcome = "ok" =>
                 /\ status' = "ready"
                 /\ \E currentMessage \in Texts :
                      LET f == Materialize(Frame, currentMessage)
                      IN /\ ret'.text = f.gen.fullText
                         /\ ret'.stats = UpdateStats(f.gen.stats)
                         /\ ret'.onToken = f.gen.onToken]_vars

\* the call returned after its first round with budget left and no abort: the
\* draft phase had hit end-of-sequence after one token
C26_Witness ==
  /\ Returned("generate", "ok")
  /\ lastCall = BackendCall("getMessage", <<targetModelId>>)
  /\ ~aborted
  /\ ret.stats.draftRounds = 1
  /\ ret.stats.acceptedTokens = 1
  /\ ret.stats.rejectedTokens = 0
  /\ ret.stats.totalTokens = 1
  /\ ret.config.maxTokens = 2
  /\ ret.onToken.count = 1

\* C27: abort() called while a round is in progress does not cut the round
\* short.  With the flag set, and barring a backend failure, a draft, verify
\* or bonus sample that returns is recorded and followed by the next step of
\* the same round; the round ends early only for its own reasons (first draft
\* token end-of-sequence, zero acceptance); and the accumulated text that
\* comes back is materialized as usual before generate() returns.
C27_AbortKeepsRound ==
  [][(aborted /\ gen.pc \in {"draft", "verify", "bonus", "getMessage"} /\ gen' # gen
        /\ ret'.outcome \in {"pending", "ok"}) =>
       /\ (gen'.pc = "idle" /\ gen.pc # "getMessage") =>
            \/ gen.pc = "draft" /\ gen.round.draftTokens = <<>>
            \/ gen.pc = "verify" /\ gen.round.verified = <<>>
                 /\ gen.round.acceptedTokens = <<>>
       /\ gen'.pc # "idle" =>
            /\ gen'.stats.draftRounds = gen.stats.draftRounds
            /\ gen.pc = "draft" =>
                 /\ gen'.pc \in {"draft", "verify"}
                 /\ gen'.pc = "draft" =>
                      Len(gen'.round.draftTokens) = Len(gen.round.draftTokens) + 1
                 /\ gen'.pc = "verify" =>
                      \/ Len(gen'.round.draftTokens) = gen.cfg.draftLength
                      \/ gen'.round.draftHitEos
            /\ gen.pc = "verify" =>
                 /\ gen'.pc \in {"verify", "bonus", "getMessage"}
                 /\ Len(gen'.round.verified) = Len(gen.round.verified) + 1
                 /\ gen'.round.draftTokens = gen.round.draftTokens
            /\ gen.pc = "bonus" =>
                 /\ gen'.pc = "getMessage"
                 /\ gen'.round.bonusToken # NoToken
       /\ gen.pc = "getMessage" =>
            /\ gen'.pc = "idle"
            /\ status' = "ready"
            /\ \E currentMessage \in Texts :
                 LET f == Materialize(Frame, currentMessage)
                 IN /\ ret'.text = f.gen.fullText
                    /\ ret'.stats = UpdateStats(f.gen.stats)
                    /\ ret'.onToken = f.gen.onToken]_vars

\* a call aborted during its first round returned that round's text: with
\* budget left and a draft of full length, only the flag ends the loop
C27_Witness ==
  /\ Returned("generate", "ok")
  /\ aborted
  /\ lastCall = BackendCall("getMessage", <<targetModelId>>)
  /\ ret.stats.draftRounds = 1
  /\ ret.stats.totalTokens = 1
  /\ ret.config = [draftLength |-> 1, maxTokens |-> 2]
  /\ ret.onToken.count = 1
  /\ ret.text # <<>>

\* C28: in every reachable state, also when unload() or loadModels() runs
\* while a generate() call is suspended, status `ready` implies that a model
\* pair is resident: getLoadedPair() is non-null and isReady() is true.
C28_ReadyImpliesResident ==
  status = "ready" => getLoadedPair # NoPair /\ isReady

\* C29: generate() clears the abort flag on entry.  An abort() issued before
\* the call, or during an earlier call, has no effect on it: the call enters
\* with the flag clear and, unless abort() is called again, starts its first
\* round after priming when its budget allows one.  Only abort() sets the
\* flag and only the entry of generate() clears it.
C29_AbortClearedOnEntry ==
  [][/\ (gen.pc = "idle" /\ Called("generate") /\ ret'.outcome = "pending") =>
          ~aborted'
     /\ (gen.pc = "prime_target" /\ ~aborted /\ gen' # gen
           /\ ret'.outcome \in {"pending", "ok"}) =>
          IF gen.cfg.maxTokens > 0
          THEN gen'.pc = "draft" /\ gen'.stats.draftRounds = 1
          ELSE gen'.pc = "idle"
     /\ (aborted' /\ ~aborted) =>
          UNCHANGED <<engine, draftModelId, targetModelId, status, emitted,
                      gen, load, auxPc, lastCall, ret>>
     /\ (aborted /\ ~aborted') =>
          Called("generate") /\ ret'.outcome = "pending"]_vars

\* a call entered with the flag set runs its first round with the flag clear
C29_Witness ==
  /\ gen.afterAbort
  /\ ~aborted
  /\ gen.pc = "verify"
  /\ gen.stats.draftRounds = 1

\* totalTokens of a stats value is at most acceptedTokens + draftRounds
TotalOk(st) == st.totalTokens <= st.acceptedTokens + st.draftRounds

\* C30: at every point of a generate() call, in every stats value it emits and
\* in the stats it returns, totalTokens <= acceptedTokens + draftRounds: a
\* round counts as generated at most one token (the replacement) that it does
\* not count as accepted.
C30_TotalBoundedByAccepted ==
  /\ TotalOk(gen.stats)
  /\ gen.totalGenerated = gen.stats.totalTokens
  /\ TotalOk(emitted.stats)
  /\ Returned("generate", "ok") => TotalOk(ret.stats)
  /\ gen.pc \in {"verify", "bonus", "getMessage"} =>
       Len(gen.round.acceptedTokens)
         <= gen.stats.acceptedTokens - gen.round.base.acceptedTokens + 1

\* every round of the call materialized one replacement token and nothing else
C30_Witness ==
  /\ Returned("generate", "ok")
  /\ ret.stats.draftRounds >= 1
  /\ ret.stats.acceptedTokens = 0
  /\ ret.stats.rejectedTokens >= 1
  /\ ret.stats.totalTokens = ret.stats.draftRounds

====
